---- MODULE Spec2Model ----
(***************************************************************************)
(* External data aggregation and caching layer of OpenLedger Hub           *)
(* (backend/app/services/external_apis.py): the process-wide cache         *)
(* (_cache, _cache_ttl), the twelve provider coroutines that read and      *)
(* fill it, and the clock they compare expiries against.                   *)
(*                                                                         *)
(* Each request is a task running one provider coroutine.  A coroutine     *)
(* runs atomically between its awaits, so one action is the code between   *)
(* two suspension points: the cache lookup up to the first await, the      *)
(* resumption after asyncio.sleep(1) (geocoding only), and the resumption  *)
(* after client.get (status check, parsing, normalisation, _set_cache,     *)
(* return).  The route that awaits the coroutine                           *)
(* (backend/app/routes/external_data.py) turns what it returned into an    *)
(* HTTP status.  The carbon calculator, a pure function of the same        *)
(* module, is specified on its own (SpecCarbon).                           *)
(***************************************************************************)
EXTENDS Integers, Sequences, FiniteSets, TLC

\* Bounds of the model.
NTasks == 2
MaxFetches == 2
MaxTicks == 2
NArgs == 1

(***************************************************************************)
(* Values.  Python objects are abstracted by their truth value and         *)
(* identity: None, a falsy non-None value ({} , [] , 0), and truthy        *)
(* payloads.                                                               *)
(***************************************************************************)
None == "None"
Empty == "empty"
Truthy(v) == v \notin {None, Empty}

Providers ==
  {"exchange_rates", "crypto", "weather", "geocode", "macro", "country",
   "holidays", "book", "book_search", "random_users", "air_quality", "ip_geo"}

Tasks == 1..NTasks

(***************************************************************************)
(* Request parameters.  get_exchange_rates takes a base currency and a     *)
(* list of currency symbols, get_country_info a country name (a string,    *)
(* here a sequence of letters), get_crypto_price a coin id and a quote     *)
(* currency (strings that may hold the ':' the key is built with),         *)
(* get_ip_geolocation nothing; the parameters of the other providers are   *)
(* only told apart.                                                        *)
(***************************************************************************)
Bases == {"usd", "USD"}
SymbolLists == {<<"EUR", "GBP">>, <<"GBP", "EUR">>}
CountryNames == {<<"K", "e">>, <<"k", "e">>}
CryptoRequests ==
  {[coin_id |-> <<"a", ":", "b">>, vs_currency |-> <<"c">>],
   [coin_id |-> <<"a">>, vs_currency |-> <<"b", ":", "c">>]}

ArgsOf(p) ==
  CASE p = "ip_geo" -> {0}
    [] p = "exchange_rates" -> [base : Bases, symbols : SymbolLists]
    [] p = "country" -> CountryNames
    [] p = "crypto" -> CryptoRequests
    [] OTHER -> 1..NArgs

(***************************************************************************)
(* What the upstream call can produce.  "error" is every path into the     *)
(* coroutine's except branch: transport error, timeout, non-2xx status     *)
(* (raise_for_status), unparsable body, or an exception while              *)
(* normalising.  "missing" is a 2xx body without the resource (expected    *)
(* key absent, empty array).  "zero" is a 2xx CoinGecko body quoting the   *)
(* price 0.  "d1", "d2" are 2xx bodies carrying two different payloads.    *)
(* "malformed" is a 2xx body whose first result record lacks a field that  *)
(* the coroutine indexes without a default (user['name'] in                *)
(* generate_random_users, float(data[0].get("lat")) in geocode_address);   *)
(* the other coroutines read every field with .get.                        *)
(***************************************************************************)
Bodies(p) ==
  {"missing", "d1", "d2"}
    \cup (IF p = "crypto" THEN {"zero"} ELSE {})
    \cup (IF p \in {"random_users", "geocode"} THEN {"malformed"} ELSE {})
Responses(p) == {"error"} \cup Bodies(p)

\* The fields of the current_weather object of an Open-Meteo body: "d1"
\* carries the three fields of the docstring of get_weather, "d2" carries
\* winddirection and time as well.
current_weather(body) ==
  CASE body = "d1" -> {"temperature", "windspeed", "weathercode"}
    [] body = "d2" -> {"temperature", "windspeed", "weathercode",
                       "winddirection", "time"}
    [] OTHER -> {}

\* The exception raised inside the coroutine's try block, "none" if none.
exception(p, body) ==
  CASE body = "error" -> "HTTPError"
    [] body = "malformed" /\ p = "random_users" -> "KeyError"
    [] body = "malformed" /\ p = "geocode" -> "TypeError"
    [] OTHER -> "none"

\* Variant of the handler that catches the errors of the HTTP client only.
except_HTTPError(exc) == exc = "HTTPError"

\* except Exception: catches every exception class above.
except_Exception(exc) == exc \in {"HTTPError", "KeyError", "TypeError"}

VARIABLES
  now,          \* datetime.now(), in whole seconds
  cache,        \* _cache: key -> value
  cache_ttl,    \* _cache_ttl: key -> expiry time
  task,         \* per request: position in its coroutine and its locals
  fetches,      \* provider calls started so far
  ticks,        \* clock advances so far
  lastSet,      \* history: per key, the latest _set_cache call made for it
  lastEnd,      \* history: per key, how the latest upstream call for it ended
  geoLog,       \* history: times at which requests were sent to Nominatim
  footprint,    \* the latest call of calculate_carbon_footprint and its result
  carbon_response,   \* the latest answer of POST /carbon-footprint
  forecast      \* the latest request to GET /predict/cashflow and its answer

vars == <<now, cache, cache_ttl, task, fetches, ticks, lastSet, lastEnd, geoLog,
          footprint, carbon_response, forecast>>

(***************************************************************************)
(* Cache store                                                             *)
(***************************************************************************)
\* Variant of _get_cache that still serves an entry at the instant it expires.
_get_cache_at_expiry(key) ==
  IF key \in DOMAIN cache /\ key \in DOMAIN cache_ttl
  THEN IF now <= cache_ttl[key] THEN cache[key] ELSE None
  ELSE None

_get_cache(key) ==
  IF key \in DOMAIN cache /\ key \in DOMAIN cache_ttl
  THEN IF now < cache_ttl[key] THEN cache[key] ELSE None
  ELSE None

\* Variant of _set_cache that stores the value and leaves the expiry map alone.
_set_cache_value_only(key, value, ttl_seconds) ==
  [cache |-> [k \in DOMAIN cache \cup {key} |->
                IF k = key THEN value ELSE cache[k]],
   cache_ttl |-> cache_ttl]

\* Variant of _set_cache that also evicts the entries that have expired.
_set_cache_evicting(key, value, ttl_seconds) ==
  LET keep == {k \in DOMAIN cache : now < cache_ttl[k]} \cup {key}
  IN [cache |-> [k \in keep |-> IF k = key THEN value ELSE cache[k]],
      cache_ttl |-> [k \in keep |->
                       IF k = key THEN now + ttl_seconds ELSE cache_ttl[k]]]

\* Variant of _set_cache that keeps an entry that has not expired yet.
_set_cache_keep_live(key, value, ttl_seconds) ==
  IF key \in DOMAIN cache /\ now < cache_ttl[key]
  THEN [cache |-> cache, cache_ttl |-> cache_ttl]
  ELSE [cache |-> [k \in DOMAIN cache \cup {key} |->
                     IF k = key THEN value ELSE cache[k]],
        cache_ttl |-> [k \in DOMAIN cache_ttl \cup {key} |->
                     IF k = key THEN now + ttl_seconds ELSE cache_ttl[k]]]

_set_cache(key, value, ttl_seconds) ==
  [cache |-> [k \in DOMAIN cache \cup {key} |->
                IF k = key THEN value ELSE cache[k]],
   cache_ttl |-> [k \in DOMAIN cache_ttl \cup {key} |->
                IF k = key THEN now + ttl_seconds ELSE cache_ttl[k]]]

(***************************************************************************)
(* Cache keys: the provider prefix, the request parameters as the f-string *)
(* renders them, and the clock where the key carries it.  The key of       *)
(* get_exchange_rates holds base as given and the symbols sorted, that of  *)
(* get_country_info the lower-cased name, that of get_ip_geolocation the   *)
(* current hour (strftime('%Y%m%d%H')) and that of generate_random_users   *)
(* the current day (strftime('%Y%m%d')).                                   *)
(***************************************************************************)
\* Code point order of the strings that occur as currency symbols.
ord(x) == CASE x = "EUR" -> 1 [] x = "GBP" -> 2 [] OTHER -> 3

RECURSIVE insert(_, _)
insert(x, seq) ==
  IF seq = <<>> THEN <<x>>
  ELSE IF ord(x) <= ord(Head(seq)) THEN <<x>> \o seq
  ELSE <<Head(seq)>> \o insert(x, Tail(seq))

\* Variant of sorted that leaves the list in the order given.
unsorted(symbols) == symbols

RECURSIVE sorted(_)
sorted(symbols) ==
  IF symbols = <<>> THEN <<>> ELSE insert(Head(symbols), sorted(Tail(symbols)))

lower_char(c) == CASE c = "K" -> "k" [] c = "E" -> "e" [] OTHER -> c
lower(name) == [i \in DOMAIN name |-> lower_char(name[i])]

\* The provider a key belongs to.
KeyProvider(k) == k[1]

\* Variant of the keys without the provider prefix.
CacheKeyNoPrefix(p, a, t) == <<"", a, 0>>

CacheKey(p, a, t) ==
  CASE p = "ip_geo" -> <<p, a, t \div 3600>>
    [] p = "random_users" -> <<p, a, t \div 86400>>
    [] p = "exchange_rates" -> <<p, <<a.base, sorted(a.symbols)>>, 0>>
    [] p = "country" -> <<p, lower(a), 0>>
    [] p = "crypto" -> <<p, a.coin_id \o <<":">> \o a.vs_currency, 0>>
    [] OTHER -> <<p, a, 0>>

(***************************************************************************)
(* Provider coroutines after the upstream call: what is returned, and      *)
(* whether and for how long it is cached.                                  *)
(***************************************************************************)
Return(v) == [ret |-> v, store |-> FALSE, ttl |-> 0]
Cached(v, ttl_seconds) == [ret |-> v, store |-> TRUE, ttl |-> ttl_seconds]

get_exchange_rates(body) ==
  IF body = "error" THEN Return(Empty)
  ELSE LET rates == IF body = "missing" THEN Empty ELSE body
       IN Cached(rates, 3600)

get_crypto_price(body) ==
  IF body = "error" THEN Return(None)
  ELSE LET price == CASE body = "missing" -> None
                      [] body = "zero" -> Empty
                      [] OTHER -> body
       IN IF Truthy(price) THEN Cached(price, 300) ELSE Return(price)

get_weather(body) ==
  IF body = "error" THEN Return(None)
  ELSE LET weather == IF body = "missing" THEN Empty ELSE body
       IN IF Truthy(weather) THEN Cached(weather, 1800) ELSE Return(weather)

geocode_address(body) ==
  IF body \in {"error", "malformed"} THEN Return(None)
  ELSE IF body # "missing" THEN Cached(body, 86400) ELSE Return(None)

get_macro_indicator(body) ==
  IF body = "error" THEN Return(None)
  ELSE IF body # "missing" THEN Cached(body, 86400) ELSE Return(None)

get_country_info(body) ==
  IF body = "error" THEN Return(None)
  ELSE IF body # "missing" THEN Cached(body, 604800) ELSE Return(None)

get_public_holidays(body) ==
  IF body = "error" THEN Return(None)
  ELSE LET holidays == IF body = "missing" THEN Empty ELSE body
       IN Cached(holidays, 86400)

get_book_info(body) ==
  IF body = "error" THEN Return(None)
  ELSE IF body # "missing" THEN Cached(body, 604800) ELSE Return(None)

search_books(body) ==
  IF body = "error" THEN Return(None)
  ELSE LET books == IF body = "missing" THEN Empty ELSE body
       IN Cached(books, 3600)

generate_random_users(body) ==
  IF body \in {"error", "malformed"} THEN Return(None)
  ELSE LET users == IF body = "missing" THEN Empty ELSE body
       IN Cached(users, 3600)

\* Variant of get_air_quality that caches for one hour.
get_air_quality_one_hour(body) ==
  IF body = "error" THEN Return(None)
  ELSE LET results == IF body = "missing" THEN Empty ELSE body
       IN Cached(results, 3600)

get_air_quality(body) ==
  IF body = "error" THEN Return(None)
  ELSE LET results == IF body = "missing" THEN Empty ELSE body
       IN Cached(results, 1800)

\* A body without the expected fields still yields a (truthy) dict of Nones.
get_ip_geolocation(body) ==
  IF body = "error" THEN Return(None)
  ELSE LET result == IF body = "missing" THEN "d0" ELSE body
       IN Cached(result, 3600)

Handle(p, body) ==
  CASE p = "exchange_rates" -> get_exchange_rates(body)
    [] p = "crypto" -> get_crypto_price(body)
    [] p = "weather" -> get_weather(body)
    [] p = "geocode" -> geocode_address(body)
    [] p = "macro" -> get_macro_indicator(body)
    [] p = "country" -> get_country_info(body)
    [] p = "holidays" -> get_public_holidays(body)
    [] p = "book" -> get_book_info(body)
    [] p = "book_search" -> search_books(body)
    [] p = "random_users" -> generate_random_users(body)
    [] p = "air_quality" -> get_air_quality(body)
    [] p = "ip_geo" -> get_ip_geolocation(body)

(***************************************************************************)
(* Routes (routes/external_data.py): the HTTP status a route answers with, *)
(* given what its provider coroutine returned.                             *)
(***************************************************************************)
fetch_exchange_rates(rates) == 200
fetch_crypto_price(price) == IF price = None THEN 404 ELSE 200
fetch_weather(weather) == IF weather = None THEN 404 ELSE 200
geocode(location) == IF location = None THEN 404 ELSE 200
fetch_macro_indicator(data) == IF data = None THEN 404 ELSE 200
fetch_country_info(info) == IF info = None THEN 404 ELSE 200
fetch_public_holidays(holidays) == IF holidays = None THEN 404 ELSE 200
fetch_book_by_isbn(book) == IF book = None THEN 404 ELSE 200
search_for_books(books) == IF books = None \/ books = Empty THEN 404 ELSE 200
generate_demo_users(users) == IF users = None THEN 500 ELSE 200
fetch_air_quality(data) == IF data = None \/ data = Empty THEN 404 ELSE 200
fetch_geolocation(location) == IF location = None THEN 500 ELSE 200

Route(p, v) ==
  CASE p = "exchange_rates" -> fetch_exchange_rates(v)
    [] p = "crypto" -> fetch_crypto_price(v)
    [] p = "weather" -> fetch_weather(v)
    [] p = "geocode" -> geocode(v)
    [] p = "macro" -> fetch_macro_indicator(v)
    [] p = "country" -> fetch_country_info(v)
    [] p = "holidays" -> fetch_public_holidays(v)
    [] p = "book" -> fetch_book_by_isbn(v)
    [] p = "book_search" -> search_for_books(v)
    [] p = "random_users" -> generate_demo_users(v)
    [] p = "air_quality" -> fetch_air_quality(v)
    [] p = "ip_geo" -> fetch_geolocation(v)

\* The TTL a provider caches a payload with.
TTL(p) == Handle(p, "d1").ttl

\* Seconds a provider sleeps between its cache miss and its upstream call.
SleepBeforeAll(p) == 1
\* Variant in which no provider sleeps.
SleepNever(p) == 0
SleepBefore(p) == IF p = "geocode" THEN 1 ELSE 0

(***************************************************************************)
(* Carbon calculator (calculate_carbon_footprint).  Masses are counted in  *)
(* grams, so the emission factors 0.475, 5.3, 2.31 and 0.255 kg CO2e per   *)
(* unit are 475, 5300, 2310 and 255.  The inputs are whole numbers of      *)
(* units.  round(x, n) yields the multiple of 10^-n nearest to the binary  *)
(* floating-point value x; when the exact product lies halfway between    *)
(* two multiples, x lies just below or just above the halfway point and    *)
(* either neighbour can result.                                            *)
(***************************************************************************)
ELECTRICITY_FACTOR == 475
GAS_FACTOR == 5300
FUEL_FACTOR == 2310
FLIGHT_FACTOR == 255

\* Values of the four parameters (float in the code; -1 stands for a
\* negative input).
Kwh == {-1, 0, 1, 1000}
Therms == {-1, 0, 1}
Liters == {-1, 0, 1, 50}
Km == {-1, 0, 1, 5000}

electricity_co2(electricity_kwh) == electricity_kwh * ELECTRICITY_FACTOR
gas_co2(natural_gas_therms) == natural_gas_therms * GAS_FACTOR
fuel_co2(fuel_liters) == fuel_liters * FUEL_FACTOR
\* Variant of flight_co2 that applies the fuel factor.
flight_co2_fuel_factor(flights_km) == flights_km * FUEL_FACTOR
flight_co2(flights_km) == flights_km * FLIGHT_FACTOR

\* The integers nearest to n / d (d > 0).
round_div(n, d) ==
  LET q == n \div d
      r == n % d
  IN IF 2 * r < d THEN {q} ELSE IF 2 * r > d THEN {q + 1} ELSE {q, q + 1}

NoFootprint == [inputs |-> <<>>]
NoResponse == [status |-> 0, negative |-> FALSE]
NoForecast == [status |-> 0]

\* The result holds kg figures in hundredths of a kg, tons in thousandths of
\* a ton, and the equivalents in tenths.
calculate_carbon_footprint(electricity_kwh, natural_gas_therms, fuel_liters, flights_km) ==
  LET total == electricity_co2(electricity_kwh) + gas_co2(natural_gas_therms)
                 + fuel_co2(fuel_liters) + flight_co2(flights_km)
  IN /\ \E total_kg \in round_div(total, 10),
           total_tons \in round_div(total, 1000),
           e \in round_div(electricity_co2(electricity_kwh), 10),
           g \in round_div(gas_co2(natural_gas_therms), 10),
           f \in round_div(fuel_co2(fuel_liters), 10),
           k \in round_div(flight_co2(flights_km), 10),
           trees \in round_div(total, 2177),
           cars \in round_div(total, 1120) :
          footprint' =
            [inputs |-> <<electricity_kwh, natural_gas_therms, fuel_liters, flights_km>>,
             total_kg_co2e |-> total_kg,
             total_tons_co2e |-> total_tons,
             breakdown |-> [electricity_kg_co2e |-> e, natural_gas_kg_co2e |-> g,
                            fuel_kg_co2e |-> f, flights_kg_co2e |-> k],
             equivalents |-> [trees_needed_to_offset |-> trees,
                              cars_off_road_days |-> cars]]
     /\ UNCHANGED <<now, cache, cache_ttl, task, fetches, ticks, lastSet, lastEnd, geoLog>>

\* Variant of the validation that lets every number through.
any_number(x) == TRUE

\* Query(0, ge=0): the validation of each parameter of the route.
ge_0(x) == x >= 0

\* The route POST /carbon-footprint: a parameter that fails its validation
\* is answered with 422 before the body of the route runs; otherwise the
\* route calls calculate_carbon_footprint and answers 200.  negative records
\* whether the request carried a negative input.
calculate_carbon(electricity_kwh, natural_gas_therms, fuel_liters, flights_km) ==
  LET valid == /\ ge_0(electricity_kwh) /\ ge_0(natural_gas_therms)
               /\ ge_0(fuel_liters) /\ ge_0(flights_km)
      negative == \E x \in {electricity_kwh, natural_gas_therms, fuel_liters, flights_km} :
                    x < 0
  IN /\ carbon_response' = [status |-> IF valid THEN 200 ELSE 422,
                            negative |-> negative]
     /\ IF valid
        THEN calculate_carbon_footprint(electricity_kwh, natural_gas_therms,
                                        fuel_liters, flights_km)
        ELSE UNCHANGED <<now, cache, cache_ttl, task, fetches, ticks, lastSet,
                         lastEnd, geoLog, footprint>>
     /\ UNCHANGED forecast

(***************************************************************************)
(* Cashflow prediction endpoint                                            *)
(***************************************************************************)
\* The largest horizon the route accepts.
MAX_HORIZON == 24

Horizons == -1 .. 26

\* What the database does when it is asked: it cannot be opened or queried
\* (~ok), or the query returns this many months of history.
History == [ok : BOOLEAN, months : 0 .. 3]

\* The route's "predictions" when there are none to return.
NoPredictions ==
  [returned |-> FALSE, count |-> 0, zeros |-> FALSE, historical_data |-> 0]

\* Variant of the route's validation that accepts every horizon.
no_limit(horizon) == FALSE

\* if horizon > 24: raise HTTPException(400)
exceeds_limit(horizon) == horizon > MAX_HORIZON

\* get_cashflow_predictions: connects, queries the last twelve months, and
\* returns range(horizon_months) predictions, all zero when fewer than two
\* months of history exist (historical_data is the number of months read);
\* a database error propagates.
get_cashflow_predictions(horizon_months, history) ==
  IF ~history.ok
  THEN [raised |-> TRUE, count |-> 0, zeros |-> FALSE, historical_data |-> 0]
  ELSE [raised |-> FALSE,
        count |-> IF horizon_months > 0 THEN horizon_months ELSE 0,
        zeros |-> history.months < 2,
        historical_data |-> history.months]

\* GET /predict/cashflow.  called and connected tell whether the prediction
\* function was invoked and whether it opened the database.
predict_cashflow(horizon, history) ==
  /\ forecast' =
       IF exceeds_limit(horizon)
       THEN [status |-> 400, horizon |-> horizon, called |-> FALSE,
             connected |-> FALSE, predictions |-> NoPredictions]
       ELSE LET r == get_cashflow_predictions(horizon, history)
            IN [status |-> IF r.raised THEN 500 ELSE 200,
                horizon |-> horizon, called |-> TRUE, connected |-> TRUE,
                predictions |-> IF r.raised THEN NoPredictions
                                ELSE [returned |-> TRUE, count |-> r.count,
                                      zeros |-> r.zeros,
                                      historical_data |-> r.historical_data]]
  /\ UNCHANGED <<now, cache, cache_ttl, task, fetches, ticks, lastSet,
                 lastEnd, geoLog, footprint, carbon_response>>

(***************************************************************************)
(* Tasks                                                                   *)
(***************************************************************************)
\* pc, prov, arg, key, wake, result are the coroutine's position and locals;
\* raised tells that it ended with an exception instead of a return value,
\* and status is the HTTP status its route answered with (0: no answer yet).
\* The other fields are history kept for the properties below:
\*   begun, sent  when the call started / when its upstream request left
\*   calls        upstream requests made by this call
\*   body         what the upstream call produced
\*   wrote, over  whether the call ran _set_cache, and what entry that replaced
\*   slept        whether the call went through asyncio.sleep
\*   seen         the key's value according to lastSet when the call started
\*   stale        the key was last set more than its TTL before the call started
\*   renewed      the key's latest set was made by a call that started stale
\*   after        how the latest earlier upstream call for the key ended
\*   overlap      another call was in progress when this one started
\*   fresh        a non-empty payload was stored for the same request (see
\*                SameRequest) less than its TTL before the call started
Idle ==
  [pc |-> "idle", prov |-> "none", arg |-> 0, key |-> <<>>, begun |-> 0,
   wake |-> 0, sent |-> 0, calls |-> 0, body |-> "none", result |-> None,
   wrote |-> FALSE, over |-> "none", slept |-> FALSE, seen |-> None,
   stale |-> FALSE, renewed |-> FALSE, after |-> "none", overlap |-> FALSE,
   fresh |-> FALSE, raised |-> FALSE, status |-> 0]

InProgress(t) == task[t].pc \in {"sleeping", "inflight"}

\* Two parameter values of provider p denote the same request: the same
\* base currency in whatever letter case with the same symbols in whatever
\* order, the same country name in whatever letter case, or the same value.
upper_base(b) == IF b = "usd" THEN "USD" ELSE b
Elems(seq) == {seq[i] : i \in DOMAIN seq}
SameRequest(p, a, b) ==
  CASE p = "exchange_rates" ->
         /\ upper_base(a.base) = upper_base(b.base)
         /\ Len(a.symbols) = Len(b.symbols)
         /\ Elems(a.symbols) = Elems(b.symbols)
    [] p = "country" ->
         /\ Len(a) = Len(b)
         /\ \A i \in DOMAIN a :
              a[i] = b[i] \/ lower_char(a[i]) = b[i] \/ a[i] = lower_char(b[i])
    [] OTHER -> a = b

\* History view of a key at the current time: the value last set for it if
\* that set is less than its TTL old, else None.
Live(key) ==
  IF key \in DOMAIN lastSet /\ now < lastSet[key].at + lastSet[key].ttl
  THEN lastSet[key].val ELSE None

Init ==
  /\ now = 0
  /\ cache = [k \in {} |-> None]
  /\ cache_ttl = [k \in {} |-> 0]
  /\ task = [t \in Tasks |-> Idle]
  /\ fetches = 0
  /\ ticks = 0
  /\ lastSet = [k \in {} |-> None]
  /\ lastEnd = [k \in {} |-> None]
  /\ geoLog = <<>>
  /\ footprint = NoFootprint
  /\ carbon_response = NoResponse
  /\ forecast = NoForecast

\* A request calls provider p with parameters a: the code up to the first
\* await (cache lookup; on a miss, the sleep of geocode_address or the
\* upstream call).  Requests are interchangeable, so a new one takes the
\* lowest slot that is not in progress.
Start(t, p, a) ==
  /\ task[t].pc \in {"idle", "done", "cancelled"}
  /\ \A u \in Tasks : u < t => InProgress(u)
  /\ fetches < MaxFetches
  /\ fetches' = fetches + 1
  /\ LET cache_key == CacheKey(p, a, now)
         cached == _get_cache(cache_key)
         base == [Idle EXCEPT !.prov = p, !.arg = a, !.key = cache_key,
                    !.begun = now, !.seen = Live(cache_key),
                    !.stale = (cache_key \in DOMAIN lastSet
                               /\ now - lastSet[cache_key].at > lastSet[cache_key].ttl),
                    !.renewed = (cache_key \in DOMAIN lastSet
                                 /\ lastSet[cache_key].renewal),
                    !.after = (IF cache_key \in DOMAIN lastEnd
                               THEN lastEnd[cache_key] ELSE "none"),
                    !.overlap = (\E u \in Tasks \ {t} : InProgress(u)),
                    !.fresh = (\E k \in DOMAIN lastSet :
                                 /\ KeyProvider(k) = p
                                 /\ SameRequest(p, lastSet[k].arg, a)
                                 /\ Truthy(lastSet[k].val)
                                 /\ now - lastSet[k].at < lastSet[k].ttl)]
     IN task' = [task EXCEPT ![t] =
          IF Truthy(cached)
          THEN [base EXCEPT !.pc = "done", !.result = cached,
                            !.status = Route(p, cached)]
          ELSE IF SleepBefore(p) > 0
          THEN [base EXCEPT !.pc = "sleeping", !.slept = TRUE,
                            !.wake = now + SleepBefore(p)]
          ELSE [base EXCEPT !.pc = "inflight", !.calls = 1, !.sent = now]]
  /\ UNCHANGED <<now, cache, cache_ttl, ticks, lastSet, lastEnd, geoLog, footprint,
               carbon_response, forecast>>

\* Variant of Wake in which the request is sent a second time.
WakeSendsTwice(t) ==
  /\ task[t].pc = "sleeping"
  /\ now >= task[t].wake
  /\ task' = [task EXCEPT ![t].pc = "inflight", ![t].calls = @ + 2, ![t].sent = now]
  /\ geoLog' = Append(Append(geoLog, now), now)
  /\ UNCHANGED <<now, cache, cache_ttl, fetches, ticks, lastSet, lastEnd, footprint,
               carbon_response, forecast>>

\* Variant of Wake in which a call waits until no other call is asleep.
WakeWhenAlone(t) ==
  /\ task[t].pc = "sleeping"
  /\ now >= task[t].wake
  /\ \A u \in Tasks \ {t} : task[u].pc # "sleeping"
  /\ task' = [task EXCEPT ![t].pc = "inflight", ![t].calls = @ + 1, ![t].sent = now]
  /\ geoLog' = Append(geoLog, now)
  /\ UNCHANGED <<now, cache, cache_ttl, fetches, ticks, lastSet, lastEnd, footprint,
               carbon_response, forecast>>

\* asyncio.sleep(1) is over: geocode_address sends its request.
Wake(t) ==
  /\ task[t].pc = "sleeping"
  /\ now >= task[t].wake
  /\ task' = [task EXCEPT ![t].pc = "inflight", ![t].calls = @ + 1, ![t].sent = now]
  /\ geoLog' = Append(geoLog, now)
  /\ UNCHANGED <<now, cache, cache_ttl, fetches, ticks, lastSet, lastEnd, footprint,
               carbon_response, forecast>>

\* client.get is over (with a response, or with an exception): the rest of
\* the coroutine, and the rest of the route that awaited it (an exception
\* that leaves the coroutine is answered by the route's own handler).
Respond(t, body) ==
  /\ task[t].pc = "inflight"
  /\ body \in Responses(task[t].prov)
  /\ LET exc == exception(task[t].prov, body)
         escapes == exc # "none" /\ ~except_Exception(exc)
         r == IF escapes THEN Return(None) ELSE Handle(task[t].prov, body)
         s == _set_cache(task[t].key, r.ret, r.ttl)
     IN /\ cache' = IF r.store THEN s.cache ELSE cache
        /\ cache_ttl' = IF r.store THEN s.cache_ttl ELSE cache_ttl
        /\ lastSet' = IF r.store
                      THEN [k \in DOMAIN lastSet \cup {task[t].key} |->
                              IF k = task[t].key
                              THEN [val |-> r.ret, at |-> now, ttl |-> r.ttl,
                                    renewal |-> task[t].stale,
                                    arg |-> task[t].arg]
                              ELSE lastSet[k]]
                      ELSE lastSet
        /\ lastEnd' = [k \in DOMAIN lastEnd \cup {task[t].key} |->
                          IF k = task[t].key THEN body ELSE lastEnd[k]]
        /\ task' = [task EXCEPT ![t].pc = "done", ![t].body = body,
                                ![t].result = r.ret, ![t].wrote = r.store,
                                ![t].raised = escapes,
                                ![t].status = IF escapes THEN 500
                                              ELSE Route(task[t].prov, r.ret),
                                ![t].over = CASE ~r.store -> "none"
                                              [] task[t].key \notin DOMAIN cache -> "new"
                                              [] now < cache_ttl[task[t].key] -> "live"
                                              [] OTHER -> "expired"]
  /\ UNCHANGED <<now, fetches, ticks, geoLog, footprint,
               carbon_response, forecast>>

\* Variant of Cancel in which the abandoned call leaves a placeholder entry.
CancelStoresNone(t) ==
  /\ InProgress(t)
  /\ task' = [task EXCEPT ![t].pc = "cancelled"]
  /\ cache' = _set_cache(task[t].key, None, TTL(task[t].prov)).cache
  /\ cache_ttl' = _set_cache(task[t].key, None, TTL(task[t].prov)).cache_ttl
  /\ UNCHANGED <<now, fetches, ticks, lastSet, lastEnd, geoLog, footprint,
               carbon_response, forecast>>

\* The request is abandoned (its task is cancelled) while the coroutine is
\* suspended in asyncio.sleep or in client.get: CancelledError is raised at
\* the await; it is no Exception, so no handler of the coroutine or of the
\* route catches it, and the coroutine ends there.
Cancel(t) ==
  /\ InProgress(t)
  /\ task' = [task EXCEPT ![t].pc = "cancelled"]
  /\ UNCHANGED <<now, cache, cache_ttl, fetches, ticks, lastSet, lastEnd, geoLog,
               footprint, carbon_response, forecast>>

\* Time passes: by one second, or up to one second before or after the
\* expiry of a cache entry (the advances that change what a lookup sees).
\* The clock is followed for MaxTicks advances, and beyond that for as long
\* as a call is waiting in asyncio.sleep for its second to elapse.
Sleeper(t) == task[t].pc = "sleeping" /\ now < task[t].wake

Deltas ==
  {1} \cup {d \in {cache_ttl[k] - now + e : k \in DOMAIN cache_ttl, e \in {-1, 1}} : d > 0}

Tick(d) ==
  /\ ticks < MaxTicks \/ (d = 1 /\ \E t \in Tasks : Sleeper(t))
  /\ ticks' = IF ticks < MaxTicks THEN ticks + 1 ELSE ticks
  /\ now' = now + d
  /\ UNCHANGED <<cache, cache_ttl, task, fetches, lastSet, lastEnd, geoLog, footprint,
               carbon_response, forecast>>

Next ==
  \/ \E t \in Tasks, p \in Providers : \E a \in ArgsOf(p) : Start(t, p, a)
  \/ \E t \in Tasks : Wake(t)
  \/ \E t \in Tasks : \E body \in Responses(task[t].prov) : Respond(t, body)
  \/ \E t \in Tasks : Cancel(t)
  \/ \E d \in Deltas : Tick(d)

Spec == Init /\ [][Next]_vars

\* The program under the scheduling the event loop and the HTTP client give:
\* the clock advances while a call sleeps, a call whose sleep is over is
\* resumed, and every upstream request ends, with a response or with an
\* error (every client is built with a timeout).  Whether a call can go on
\* depends on its provider only through the sleep, so the calls are those of
\* geocode_address, the one that sleeps, and of two that do not.
LiveProviders == {"geocode", "crypto", "weather"}

NextLive ==
  \/ \E t \in Tasks, p \in LiveProviders : \E a \in ArgsOf(p) : Start(t, p, a)
  \/ \E t \in Tasks : Wake(t)
  \/ \E t \in Tasks : \E body \in Responses(task[t].prov) : Respond(t, body)
  \/ \E t \in Tasks : Cancel(t)
  \/ \E d \in Deltas : Tick(d)

Fairness ==
  /\ WF_vars(\E t \in Tasks : Sleeper(t) /\ Tick(1))
  /\ \A t \in Tasks :
       /\ WF_vars(Wake(t))
       /\ WF_vars(\E body \in Responses(task[t].prov) : Respond(t, body))

SpecLive == Init /\ [][NextLive]_vars /\ Fairness

\* The carbon calculator on its own: it is stateless and shares nothing with
\* the cache.
NextCarbon ==
  \E electricity_kwh \in Kwh, natural_gas_therms \in Therms,
     fuel_liters \in Liters, flights_km \in Km :
    \/ /\ calculate_carbon_footprint(electricity_kwh, natural_gas_therms,
                                     fuel_liters, flights_km)
       /\ UNCHANGED <<carbon_response, forecast>>
    \/ calculate_carbon(electricity_kwh, natural_gas_therms, fuel_liters, flights_km)

SpecCarbon == Init /\ [][NextCarbon]_vars

\* The cashflow endpoint on its own.
NextCashflow ==
  \E horizon \in Horizons, history \in History :
    predict_cashflow(horizon, history)

SpecCashflow == Init /\ [][NextCashflow]_vars

(***************************************************************************)
(* Vocabulary of the properties                                            *)
(***************************************************************************)
Started(t) == task[t].pc # "idle"
Done(t) == task[t].pc = "done"
\* The call was answered from the cache: it returned without going upstream.
Hit(t) == Done(t) /\ task[t].calls = 0
\* The three outcomes of an upstream call: it failed, it answered that the
\* resource does not exist, or it answered with the resource.
FailBodies == {"error", "malformed"}
Failed(t) == Done(t) /\ task[t].body \in FailBodies
NotFound(t) == Done(t) /\ task[t].body = "missing"
OkBodies == {"zero", "d1", "d2"}
Ok(t) == Done(t) /\ task[t].body \in OkBodies
\* The payload an answer carries (the price 0 is the falsy number 0).
Payload(body) == IF body = "zero" THEN Empty ELSE body

KeysInPlay ==
  DOMAIN cache \cup DOMAIN cache_ttl \cup DOMAIN lastSet
    \cup UNION {{CacheKey(p, a, now) : a \in ArgsOf(p)} : p \in Providers}

(***************************************************************************)
(* C1.  Cache hit skips network: a call whose key was stored by an earlier *)
(* successful fetch less than its TTL ago returns exactly the stored data  *)
(* and makes no upstream call, whatever the stored payload is (empty       *)
(* payloads included).                                                     *)
(***************************************************************************)
C1_CacheHitSkipsNetwork ==
  \A t \in Tasks :
    (Started(t) /\ task[t].seen # None)
      => (Hit(t) /\ task[t].result = task[t].seen)

(***************************************************************************)
(* C2.  In every reachable state _get_cache(key) returns the value last    *)
(* set for key if that set happened less than its TTL ago, and None        *)
(* otherwise: a key whose expiry has passed reads exactly like a key that  *)
(* was never set.                                                          *)
(***************************************************************************)
C2_GetCacheVisibleIffUnexpired ==
  \A k \in KeysInPlay : _get_cache(k) = Live(k)

\* An entry whose expiry has passed is still stored, next to an unexpired one.
C2_Witness ==
  \E k1, k2 \in DOMAIN cache :
    /\ now >= cache_ttl[k1] /\ _get_cache(k1) = None
    /\ now < cache_ttl[k2] /\ _get_cache(k2) = cache[k2]

(***************************************************************************)
(* C3.  A step in which a call runs _set_cache(key, value, ttl) leaves     *)
(* key mapped to value with expiry (time of the call) + ttl, whatever      *)
(* entry key had before, and leaves the entries of all other keys as they  *)
(* were.                                                                   *)
(***************************************************************************)
C3_SetCacheReplacesAndFrames ==
  [][\A t \in Tasks :
       (task[t].pc = "inflight" /\ task'[t].pc = "done" /\ task'[t].wrote)
         => LET k == task[t].key
            IN /\ DOMAIN cache' = DOMAIN cache \cup {k}
               /\ DOMAIN cache_ttl' = DOMAIN cache_ttl \cup {k}
               /\ cache'[k] = task'[t].result
               /\ cache_ttl'[k] = now + TTL(task[t].prov)
               /\ \A j \in DOMAIN cache \ {k} :
                    cache'[j] = cache[j] /\ cache_ttl'[j] = cache_ttl[j]]_vars

\* A call has overwritten an entry that had not expired yet, while another
\* key's entry is in the cache.
C3_Witness ==
  \E t \in Tasks :
    /\ Done(t) /\ task[t].wrote /\ task[t].over = "live"
    /\ cache[task[t].key] = task[t].result

(***************************************************************************)
(* C4.  Expiry property: a call made more than T seconds after its key's   *)
(* entry was inserted with TTL T goes upstream exactly once; if that call  *)
(* succeeds it overwrites the entry; and the call that follows within T    *)
(* of that overwrite is served from the cache.                             *)
(***************************************************************************)
C4_ExpiryRefetchesOnceAndRenews ==
  \A t \in Tasks :
    /\ (Done(t) /\ task[t].stale) => task[t].calls = 1
    /\ (Ok(t) /\ task[t].stale)
         => (task[t].wrote /\ task[t].result = Payload(task[t].body))
    /\ (Started(t) /\ task[t].renewed /\ task[t].seen # None) => Hit(t)

(***************************************************************************)
(* C5.  Whenever a provider function returns a successful payload obtained *)
(* from upstream, it has stored that payload under the request's key       *)
(* before returning: for every provider and every payload value.           *)
(***************************************************************************)
C5_OkPayloadIsStored ==
  \A t \in Tasks :
    Ok(t) => (task[t].result = Payload(task[t].body) /\ task[t].wrote)

(***************************************************************************)
(* C6.  Not-found is not cached: a call whose upstream has no data for     *)
(* the request writes nothing to the cache, and the next call for the same *)
(* key goes upstream again.                                                *)
(***************************************************************************)
C6_NotFoundWritesNothing ==
  \A t \in Tasks :
    /\ NotFound(t) => ~task[t].wrote
    /\ (Started(t) /\ task[t].after = "missing") => ~Hit(t)

(***************************************************************************)
(* C7.  Failures are never cached: a call whose upstream call fails writes *)
(* nothing to the cache; the next call for the same key goes upstream      *)
(* again and, if that upstream call succeeds, returns the payload and      *)
(* populates the cache.                                                    *)
(***************************************************************************)
C7_FailureNotCachedRetrySucceeds ==
  \A t \in Tasks :
    /\ Failed(t) => (~task[t].wrote /\ task[t].over = "none")
    /\ (Started(t) /\ task[t].after \in FailBodies) => ~Hit(t)
    /\ (Ok(t) /\ task[t].after \in FailBodies)
         => (task[t].result = Payload(task[t].body) /\ task[t].wrote)

(***************************************************************************)
(* C8.  Rate-gate invariant: the requests that concurrent geocode calls    *)
(* send to the geocoding provider are at least 1 second apart from each    *)
(* other, so N of them span at least N - 1 seconds.                        *)
(***************************************************************************)
Sent(t) == Started(t) /\ task[t].calls > 0
Concurrent(t, u) == task[t].begun <= task[u].sent /\ task[u].begun <= task[t].sent

C8_GeocodeDispatchesOneSecondApart ==
  \A t, u \in Tasks :
    (t # u /\ task[t].prov = "geocode" /\ task[u].prov = "geocode"
       /\ Sent(t) /\ Sent(u) /\ Concurrent(t, u))
      => (task[t].sent - task[u].sent >= 1 \/ task[u].sent - task[t].sent >= 1)

(***************************************************************************)
(* C9.  Only a geocode call that missed the cache waits on the rate limit: *)
(* a call that was served from the cache has not slept, and a call of any  *)
(* other provider never sleeps and sends its upstream request at the       *)
(* moment it starts, whatever geocode calls are in progress.               *)
(***************************************************************************)
C9_OnlyGeocodeMissWaits ==
  \A t \in Tasks :
    /\ (task[t].pc = "sleeping" \/ task[t].slept)
         => (task[t].prov = "geocode" /\ ~Truthy(task[t].seen) /\ ~Hit(t))
    /\ Hit(t) => ~task[t].slept
    /\ (Started(t) /\ task[t].prov # "geocode" /\ ~Truthy(task[t].seen))
         => (task[t].calls = 1 /\ task[t].sent = task[t].begun)

\* While a geocode call is in its rate-limit wait, a call of another provider
\* that started during that wait has already sent its upstream request.
C9_Witness ==
  \E t, u \in Tasks :
    /\ task[t].pc = "sleeping" /\ task[t].prov = "geocode"
    /\ task[u].prov \notin {"geocode", "none"} /\ task[u].overlap
    /\ task[u].calls = 1 /\ task[u].sent = task[u].begun

(***************************************************************************)
(* C10.  Failure isolation: no step of a call of provider A (in particular *)
(* one whose upstream call fails) creates, changes or removes a cache      *)
(* entry of another provider B, a failing step changes no entry at all, a  *)
(* call of B waits for nothing but its own sleep (its request leaves when  *)
(* it starts, or when its own one-second sleep is over), and a call of B   *)
(* whose upstream answers with the resource returns it, whatever A's calls *)
(* do.                                                                     *)
(***************************************************************************)
C10_FailureIsolation ==
  [][\A t \in Tasks :
       task'[t] # task[t]
         => /\ \A k \in DOMAIN cache \cup DOMAIN cache' :
                 KeyProvider(k) # task'[t].prov
                   => /\ k \in DOMAIN cache /\ k \in DOMAIN cache'
                      /\ cache'[k] = cache[k] /\ cache_ttl'[k] = cache_ttl[k]
            /\ task'[t].body \in FailBodies
                 => (cache' = cache /\ cache_ttl' = cache_ttl)
            /\ task'[t].pc = "sleeping"
                 => task'[t].wake = task'[t].begun + SleepBefore(task'[t].prov)
            /\ (task'[t].calls = 1 /\ ~task'[t].slept)
                 => task'[t].sent = task'[t].begun
            /\ (task'[t].pc = "done" /\ task'[t].body \in OkBodies)
                 => task'[t].result = Payload(task'[t].body)]_vars

\* A call of one provider has failed and a call of another provider, running
\* at the same time, has returned its payload; the other provider's entry is
\* in the cache.
C10_Witness ==
  \E t, u \in Tasks :
    /\ Failed(t) /\ Ok(u) /\ task[u].prov # task[t].prov
    /\ task[u].overlap /\ task[u].result # None
    /\ task[u].key \in DOMAIN cache /\ task[t].key \notin DOMAIN cache

(***************************************************************************)
(* C11.  Key normalization: exchange-rate requests that differ only in the *)
(* letter case of the base currency and in the order of the symbols use    *)
(* the same cache entry: once one of them has stored its (non-empty)       *)
(* rates, the other, started within the TTL, is a cache hit without an     *)
(* upstream call.                                                          *)
(***************************************************************************)
C11_ExchangeRateKeyNormalized ==
  \A t \in Tasks :
    (Started(t) /\ task[t].prov = "exchange_rates" /\ task[t].fresh) => Hit(t)

(***************************************************************************)
(* C12.  Cache keys are invariant under the normalizations the code        *)
(* applies: exchange-rate requests with the same base and any permutation  *)
(* of the same symbol list, and country requests whose names differ only   *)
(* in letter case, get the same key and so see the same cache slot: in     *)
(* every state a lookup for one returns what a lookup for the other does,  *)
(* and a call that finds the other's live payload is a hit.                *)
(***************************************************************************)
SameNormalized(p, a, b) ==
  SameRequest(p, a, b) /\ (p = "exchange_rates" => a.base = b.base)

C12_KeysInvariantUnderNormalization ==
  /\ \A p \in {"exchange_rates", "country"} :
       \A a, b \in ArgsOf(p) :
         SameNormalized(p, a, b)
           => /\ CacheKey(p, a, now) = CacheKey(p, b, now)
              /\ _get_cache(CacheKey(p, a, now)) = _get_cache(CacheKey(p, b, now))
  /\ \A t \in Tasks :
       (Started(t) /\ task[t].prov \in {"exchange_rates", "country"}
          /\ \E k \in DOMAIN lastSet :
               /\ KeyProvider(k) = task[t].prov
               /\ SameNormalized(task[t].prov, lastSet[k].arg, task[t].arg)
               /\ Truthy(lastSet[k].val)
               /\ task[t].begun - lastSet[k].at < lastSet[k].ttl
               /\ lastSet[k].at < task[t].begun)
         => (Hit(t) /\ task[t].result = lastSet[task[t].key].val)

\* A call was served from the entry that a call with the symbols in another
\* order, or the name in another letter case, had stored.
C12_Witness ==
  \E t \in Tasks :
    /\ Hit(t) /\ task[t].prov \in {"exchange_rates", "country"}
    /\ task[t].key \in DOMAIN lastSet
    /\ lastSet[task[t].key].arg # task[t].arg
    /\ task[t].result = cache[task[t].key]

(***************************************************************************)
(* C13.  Whenever a successful upstream response says that the resource    *)
(* does not exist (empty result array, expected key missing), the fetch is *)
(* answered as not found (404), for every provider: never with a success   *)
(* value and never as unavailable.                                         *)
(***************************************************************************)
C13_MissingIsNotFound ==
  \A t \in Tasks : NotFound(t) => task[t].status = 404

(***************************************************************************)
(* C14.  An upstream failure (transport error, non-2xx status, timeout,    *)
(* unparsable body) is answered as unavailable (500): never with a 404     *)
(* and never with a success response.                                      *)
(***************************************************************************)
C14_FailureIsUnavailable ==
  \A t \in Tasks : Failed(t) => task[t].status = 500

(***************************************************************************)
(* C15.  No exception raised by the upstream call or while parsing or      *)
(* normalising its response leaves a provider function: a call whose       *)
(* upstream call or normalisation fails returns None (the empty dict for   *)
(* get_exchange_rates) and writes nothing, every finished call has         *)
(* returned a value, and later calls are served.                           *)
(***************************************************************************)
C15_NoExceptionEscapes ==
  \A t \in Tasks :
    /\ ~task[t].raised
    /\ Failed(t)
         => /\ task[t].result = (IF task[t].prov = "exchange_rates"
                                 THEN Empty ELSE None)
            /\ ~task[t].wrote
    /\ Done(t) => task[t].status \in {200, 404, 500}

\* After a call of generate_random_users failed on a result record without
\* the expected fields, the next call for the same key returned its payload.
C15_Witness ==
  \E t \in Tasks :
    /\ Ok(t) /\ task[t].prov = "random_users" /\ task[t].after = "malformed"
    /\ ~task[t].raised /\ task[t].result = task[t].body

(***************************************************************************)
(* C16.  Every fetch makes at most one upstream call, whether that call    *)
(* succeeds or fails: no step sends a second request for a call, the end   *)
(* of an upstream call (response or failure) sends none, and a call served *)
(* from the cache has sent none.  Hence the calls that miss on one key     *)
(* concurrently send at most one request each.                             *)
(***************************************************************************)
C16_AtMostOneUpstreamCall ==
  [][\A t \in Tasks :
       /\ task'[t].calls <= 1
       /\ task[t].pc = "inflight" => task'[t].calls = task[t].calls
       /\ (task'[t] # task[t] /\ task'[t].pc = "done" /\ task[t].pc # "inflight")
            => task'[t].calls = 0
       /\ Len(geoLog') <= Len(geoLog) + 1]_vars

\* Two calls missed on the same key at the same time; each sent one request,
\* and the one whose upstream call failed did not send another.
C16_Witness ==
  \E t, u \in Tasks :
    /\ t # u /\ task[t].key = task[u].key /\ task[u].overlap
    /\ Failed(t) /\ Done(u)
    /\ task[t].calls = 1 /\ task[u].calls = 1

(***************************************************************************)
(* C17.  Each provider stores its results with its declared TTL and no     *)
(* other: every cache entry expires exactly the declared number of seconds *)
(* after the call that stored it: 300 crypto price; 1800 weather and air   *)
(* quality; 3600 exchange rates, book search, demo users and IP            *)
(* geolocation; 86400 geocode, macro indicators and holidays; 604800       *)
(* country info and book by ISBN.                                          *)
(***************************************************************************)
DeclaredTTL(p) ==
  CASE p = "crypto" -> 300
    [] p \in {"weather", "air_quality"} -> 1800
    [] p \in {"exchange_rates", "book_search", "random_users", "ip_geo"} -> 3600
    [] p \in {"geocode", "macro", "holidays"} -> 86400
    [] p \in {"country", "book"} -> 604800

C17_DeclaredTTLs ==
  \A k \in DOMAIN cache_ttl :
    /\ k \in DOMAIN lastSet
    /\ lastSet[k].ttl = DeclaredTTL(KeyProvider(k))
    /\ cache_ttl[k] = lastSet[k].at + DeclaredTTL(KeyProvider(k))

\* An air-quality entry and a country entry are in the cache, stored at
\* different times.
C17_Witness ==
  \E k1, k2 \in DOMAIN cache_ttl :
    /\ KeyProvider(k1) = "air_quality" /\ KeyProvider(k2) = "country"
    /\ lastSet[k1].at # lastSet[k2].at
    /\ cache_ttl[k1] = lastSet[k1].at + 1800
    /\ cache_ttl[k2] = lastSet[k2].at + 604800

(***************************************************************************)
(* C18.  A successful weather fetch returns and caches a payload holding   *)
(* only the fields temperature, windspeed and weathercode, whatever other  *)
(* fields the upstream current_weather object contains.                    *)
(***************************************************************************)
C18_WeatherKeepsThreeFields ==
  \A t \in Tasks :
    (Done(t) /\ task[t].prov = "weather" /\ Truthy(task[t].result))
      => current_weather(task[t].result) = {"temperature", "windspeed", "weathercode"}

(***************************************************************************)
(* C19.  IP geolocation and demo-user results are cached for one hour:     *)
(* after a call has stored its result, every call with the same parameters *)
(* started less than 3600 seconds later is served from the cache, whatever *)
(* the wall-clock time of the two calls.                                   *)
(***************************************************************************)
C19_CachedForOneHour ==
  \A t \in Tasks :
    (Started(t) /\ task[t].prov \in {"ip_geo", "random_users"} /\ task[t].fresh)
      => Hit(t)

(***************************************************************************)
(* C20.  calculate_carbon_footprint(1000, 0, 50, 5000) yields electricity  *)
(* 475.0, fuel 115.5, flights 1275.0 and total 1865.5 kg CO2e.  In         *)
(* general each breakdown entry is the input times its fixed factor        *)
(* (0.475, 5.3, 2.31, 0.255) rounded to two decimals, and the total is the *)
(* sum of the four unrounded products rounded to two decimals: each figure *)
(* is within 0.005 kg of the exact value.                                  *)
(***************************************************************************)
Computed == footprint # NoFootprint
Products ==
  <<footprint.inputs[1] * 475, footprint.inputs[2] * 5300,
    footprint.inputs[3] * 2310, footprint.inputs[4] * 255>>
Entries ==
  <<footprint.breakdown.electricity_kg_co2e, footprint.breakdown.natural_gas_kg_co2e,
    footprint.breakdown.fuel_kg_co2e, footprint.breakdown.flights_kg_co2e>>
Near(hundredths, grams) ==
  10 * hundredths - grams <= 5 /\ grams - 10 * hundredths <= 5

C21_NegativeInputRejectedByRoute ==
  [][/\ carbon_response'.status = 422 <=> carbon_response'.negative
     /\ carbon_response'.status \in {0, 200, 422}
     /\ (carbon_response' # carbon_response /\ carbon_response'.status = 422)
          => footprint' = footprint
     /\ (carbon_response' # carbon_response /\ carbon_response'.status = 200)
          => (footprint' # NoFootprint
              /\ \A i \in 1..4 : footprint'.inputs[i] >= 0)
     /\ footprint' # footprint
          => ({"total_kg_co2e", "breakdown"} \subseteq DOMAIN footprint'
              /\ Len(footprint'.inputs) = 4)
     /\ cache' = cache /\ cache_ttl' = cache_ttl]_vars

\* The route has rejected a request, and the latest result of the function
\* is the one of a direct call with a negative input.
C21_Witness ==
  /\ carbon_response.status = 422 /\ carbon_response.negative
  /\ footprint # NoFootprint
  /\ \E i \in 1..4 : footprint.inputs[i] < 0
  /\ footprint.total_kg_co2e < 0

(***************************************************************************)
(* C22.  No operation removes a cache entry: in every step the keys        *)
(* present in _cache and in _cache_ttl stay present, and an entry (expired *)
(* or not) keeps its value and expiry unless the step is the end of a      *)
(* fetch for its key whose upstream call did not fail and which stores     *)
(* its result.                                                             *)
(***************************************************************************)
C22_EntriesNeverRemoved ==
  [][/\ DOMAIN cache \subseteq DOMAIN cache'
     /\ DOMAIN cache_ttl \subseteq DOMAIN cache_ttl'
     /\ \A k \in DOMAIN cache :
          (cache'[k] # cache[k] \/ cache_ttl'[k] # cache_ttl[k])
            => \E t \in Tasks :
                 /\ task[t].pc = "inflight" /\ task'[t].pc = "done"
                 /\ task[t].key = k /\ task'[t].wrote
                 /\ task'[t].body \notin FailBodies]_vars

\* An entry has expired, a fetch for its key has failed since, and the entry
\* is still stored.
C22_Witness ==
  \E t \in Tasks :
    /\ Failed(t) /\ task[t].stale
    /\ task[t].key \in DOMAIN cache /\ now >= cache_ttl[task[t].key]

(***************************************************************************)
(* C23.  A cashflow prediction request with horizon greater than 24 is      *)
(* answered 400 without the prediction function being called or the         *)
(* database being opened, and no other request is answered 400; a request   *)
(* with horizon 24 or less reaches the prediction function, which opens     *)
(* the database, and is answered 200 with its predictions or 500 when the   *)
(* function raised.                                                         *)
(***************************************************************************)
C23_HorizonAbove24Rejected ==
  forecast # NoForecast =>
    /\ (forecast.horizon > 24) <=> (forecast.status = 400)
    /\ forecast.status = 400 =>
         /\ ~forecast.called /\ ~forecast.connected
         /\ ~forecast.predictions.returned
    /\ forecast.horizon <= 24 =>
         /\ forecast.called /\ forecast.connected
         /\ forecast.status \in {200, 500}
         /\ forecast.status = 200 =>
              /\ forecast.predictions.returned
              /\ forecast.predictions.count =
                   (IF forecast.horizon > 0 THEN forecast.horizon ELSE 0)

\* Horizon 25 has been rejected.
C23_Witness == forecast # NoForecast /\ forecast.horizon = 25 /\ forecast.status = 400

(***************************************************************************)
(* C24.  When two calls miss on the same key while both are in progress    *)
(* and both upstream calls succeed, the call that completes last leaves    *)
(* its own payload in the cache, expiring one TTL after its completion,    *)
(* and each call returns the payload of its own upstream call.             *)
(***************************************************************************)
C24_LastCompletionWins ==
  [][\A t, u \in Tasks :
       (/\ t # u
        /\ task[t].pc = "inflight" /\ task'[t].pc = "done"
        /\ task'[t].body \in OkBodies
        /\ Ok(u) /\ task[u].calls > 0
        /\ task[u].key = task[t].key
        /\ task[t].overlap \/ task[u].overlap)
         => /\ task[t].key \in DOMAIN cache'
            /\ cache'[task[t].key] = Payload(task'[t].body)
            /\ cache_ttl'[task[t].key] = now + TTL(task[t].prov)
            /\ task'[t].result = Payload(task'[t].body)
            /\ task'[u].result = Payload(task[u].body)]_vars

\* The same, for upstream payloads other than the number 0.
C24_LastCompletionWinsNonZero ==
  [][\A t, u \in Tasks :
       (/\ t # u
        /\ task[t].pc = "inflight" /\ task'[t].pc = "done"
        /\ task'[t].body \in OkBodies \ {"zero"}
        /\ Ok(u) /\ task[u].calls > 0
        /\ task[u].key = task[t].key
        /\ task[t].overlap \/ task[u].overlap)
         => /\ task[t].key \in DOMAIN cache'
            /\ cache'[task[t].key] = Payload(task'[t].body)
            /\ cache_ttl'[task[t].key] = now + TTL(task[t].prov)
            /\ task'[t].result = Payload(task'[t].body)
            /\ task'[u].result = Payload(task[u].body)]_vars

(***************************************************************************)
(* C25.  Every upstream request of geocode_address leaves at least one     *)
(* second after its own call started, hence at least one second after      *)
(* every geocoding request that had left before that call started: when    *)
(* the calls are made one after another, consecutive requests are at       *)
(* least one second apart.                                                 *)
(***************************************************************************)
C25_SequentialGeocodeOneSecondApart ==
  \A t \in Tasks :
    (task[t].prov = "geocode" /\ Sent(t))
      => /\ task[t].sent >= task[t].begun + 1
         /\ \A i \in 1 .. Len(geoLog) :
              geoLog[i] <= task[t].begun => task[t].sent - geoLog[i] >= 1

\* A geocode call that started when no other call was in progress, after an
\* earlier geocoding request had left, has sent its own request.
C25_Witness ==
  \E t \in Tasks :
    /\ task[t].prov = "geocode" /\ Sent(t) /\ ~task[t].overlap
    /\ Len(geoLog) = 2
    /\ geoLog[1] <= task[t].begun /\ geoLog[2] = task[t].sent

(***************************************************************************)
(* C26.  In every state between two steps of the coroutines (the points    *)
(* where another request can run), _cache and _cache_ttl have the same     *)
(* keys, and every entry pairs the value last stored for its key with the  *)
(* expiry computed by that same store (its time plus its TTL).             *)
(***************************************************************************)
C26_ValueAndExpiryInStep ==
  /\ DOMAIN cache = DOMAIN cache_ttl
  /\ DOMAIN cache = DOMAIN lastSet
  /\ \A k \in DOMAIN cache :
       /\ cache[k] = lastSet[k].val
       /\ cache_ttl[k] = lastSet[k].at + lastSet[k].ttl

\* An entry has been overwritten.
C26_Witness ==
  \E t \in Tasks :
    /\ Done(t) /\ task[t].wrote /\ task[t].over \in {"live", "expired"}
    /\ cache[task[t].key] = task[t].result

(***************************************************************************)
(* C27.  Cache keys are injective over requests: a call is served from     *)
(* the cache only with an entry that a call to the same provider with the  *)
(* same normalized parameters has stored, whatever characters (such as     *)
(* the ':' that separates the parts of a key) the parameters hold.         *)
(***************************************************************************)
C27_KeysInjective ==
  \A t \in Tasks :
    (Hit(t) /\ task[t].key \in DOMAIN lastSet)
      => /\ KeyProvider(task[t].key) = task[t].prov
         /\ SameNormalized(task[t].prov, lastSet[task[t].key].arg, task[t].arg)

(***************************************************************************)
(* C28.  A call that is cancelled while it is suspended, in the wait of    *)
(* geocode_address or in an upstream request, leaves _cache and _cache_ttl *)
(* as they were and has written nothing; the cache changes only in the     *)
(* step in which a call runs to its end.                                   *)
(***************************************************************************)
C28_CancelledFetchWritesNothing ==
  [][/\ \A t \in Tasks :
          (InProgress(t) /\ task'[t].pc = "cancelled")
            => /\ cache' = cache /\ cache_ttl' = cache_ttl
               /\ ~task'[t].wrote
     /\ (cache' # cache \/ cache_ttl' # cache_ttl)
          => \E t \in Tasks :
               /\ task[t].pc = "inflight" /\ task'[t].pc = "done"
               /\ task'[t].wrote]_vars

\* One call was cancelled during the wait of geocode_address, another during
\* its upstream request, and the cache has no entry for either.
C28_Witness ==
  \E t, u \in Tasks :
    /\ task[t].pc = "cancelled" /\ task[t].prov = "geocode"
    /\ task[t].slept /\ task[t].calls = 0
    /\ task[u].pc = "cancelled" /\ task[u].calls > 0
    /\ task[t].key \notin DOMAIN cache /\ task[u].key \notin DOMAIN cache

(***************************************************************************)
(* C29.  Every call that is in progress (asleep in geocode_address or      *)
(* waiting for its upstream request) eventually ends, whatever other       *)
(* calls run at the same time, provided the clock advances, a call whose   *)
(* sleep is over is resumed, and every upstream request ends.              *)
(***************************************************************************)
C29_EveryFetchReturns ==
  \A t \in Tasks : InProgress(t) ~> (task[t].pc \in {"done", "cancelled"})

\* Two geocode calls that slept at the same time have both returned.
C29_Witness ==
  \E t, u \in Tasks :
    /\ t # u /\ Done(t) /\ Done(u)
    /\ task[t].prov = "geocode" /\ task[u].prov = "geocode"
    /\ task[t].slept /\ task[u].slept /\ task[u].overlap
    /\ task[u].begun < task[t].sent

====
